---- MODULE Spec2Model ----
(***************************************************************************)
(* Megano storefront backend: request handlers over the relational store.  *)
(* The store is the set of rows of each table; every handler is one        *)
(* action that reads the request, queries and mutates the rows and leaves  *)
(* its response in resp.  Requests are processed one at a time.            *)
(***************************************************************************)
EXTENDS Integers, Sequences, FiniteSets, TLC

\* ---------------------------------------------------------------- bounds
NUsers == 2
NCustomers == 1
NSessions == 2
NProducts == 2
NPasswords == 2
MaxCount == 2
MaxBasketRows == 2
MaxItemRows == 2
NCategories == 3
NTags == 2
NCatalogProducts == 4
NPagedProducts == 11
MaxOrders == 1
MaxReviews == 1
NRequests == 2

\* ------------------------------------------------------------- constants
Anon == 0            \* request.user of an unauthenticated request
NoBasket == 0        \* request.session.get('basket_id') when the key is absent
\* the basket and the product the POSTs in progress are for
RaceBasket == 1
RaceProduct == 1
NoParent == 0        \* Category.parent is null
Unsupplied == -1     \* a query parameter the request does not carry
NotAnInteger == -2   \* a page parameter that is no number, such as "x"
items_per_page == 10
PopularLimit == 8
LimitedLimit == 16
BannerLimit == 3
FreeDeliveryFrom == 2000   \* an order below this total pays for delivery
DeliveryCost == 200
NoCost == -1         \* Order.totalCost is null
HTTP_200 == 200
HTTP_201 == 201
HTTP_400 == 400
HTTP_404 == 404
HTTP_500 == 500

Usernames == 1..NUsers
Customers == 1..NCustomers           \* the usernames the basket scenarios register
Passwords == 1..NPasswords
Sessions == 1..NSessions
ProductIds == 1..NProducts
CatalogIds == 1..NCatalogProducts    \* the products of the catalogue scenarios
CategoryIds == 1..NCategories
TagIds == 1..NTags
MissingProduct == NProducts + 1      \* an id no Product row has
Counts == (-1)..MaxCount             \* the count a basket POST carries
Quantities == 0..MaxCount            \* the count a basket DELETE carries

VARIABLES
    users,        \* auth User rows: [username, password]
    profiles,     \* Profile rows: [id, user, avatar, fullName]
    avatars,      \* Avatar rows: [id]
    sessions,     \* session store: session -> [user, basket_id]
    baskets,      \* Basket rows: [id, user]
    basketItems,  \* BasketItem rows: [id, basket, product, count]
    products,     \* Product rows: id -> fields
    categories,   \* Category rows: id -> [parent, is_deleted]
    reviews,      \* Review rows in creation order: [product, rate]
    orders,       \* Order rows in creation order (the id is the position)
    nextId,       \* the autoincrement counters of the tables
    resp,         \* the request just handled and its response
    inflight      \* basket POST requests in progress: request -> its local state

vars == <<users, profiles, avatars, sessions, baskets, basketItems, products,
          categories, reviews, orders, nextId, resp, inflight>>

authRows == <<users, profiles, avatars>>
catalogRows == <<products, categories, reviews>>

\* ------------------------------------------------------------ the store
\* fault: the duplicate-username test never finds the user
UserExists_never(username) == FALSE

\* User.objects.filter(username=username).exists()
UserExists(username) == \E u \in users : u.username = username

\* The catalogue the shop starts with: rows the admin has entered, none of
\* them deleted.  Titles, categories and tags repeat so that a filter can match
\* several products; dates follow the order of creation.
ProductRow(p) ==
    [category |-> ((p - 1) % NCategories) + 1, price |-> 500 * p,
     count |-> p % 2, date |-> p, title |-> (p + 1) \div 2,
     freeDelivery |-> (p % 2 = 0),
     tags |-> IF p % 4 = 0 THEN TagIds ELSE {(p % NTags) + 1},
     number_of_sales |-> p \div 2, index_sort |-> 0,
     limited_edition |-> (p % 2 = 1), is_deleted |-> FALSE]

\* Even categories are subcategories of the category before them.
CategoryRow(c) ==
    [parent |-> IF c % 2 = 0 THEN c - 1 ELSE NoParent, is_deleted |-> FALSE]

NoResponse ==
    [op |-> "none", sess |-> 0, status |-> 0, username |-> Anon,
     basket |-> NoBasket, product |-> 0, count |-> 0, body |-> {},
     query |-> <<>>, items |-> <<>>, currentPage |-> 0, lastPage |-> 0]

Init ==
    /\ users = {}
    /\ profiles = {}
    /\ avatars = {}
    /\ sessions = [s \in Sessions |-> [user |-> Anon, basket_id |-> NoBasket]]
    /\ baskets = {}
    /\ basketItems = {}
    /\ products = [p \in ProductIds |-> ProductRow(p)]
    /\ categories = [c \in CategoryIds |-> CategoryRow(c)]
    /\ reviews = <<>>
    /\ orders = <<>>
    /\ nextId = [basket |-> 1, profile |-> 1, avatar |-> 1]
    /\ resp = NoResponse
    /\ inflight = <<>>

\* ------------------------------------------------- session and auth glue
\* django.contrib.auth.login as the views call it: the session data survives
\* the key rotation unless the session belonged to another user.
login(s, username) ==
    IF sessions[s].user # Anon /\ sessions[s].user # username
    THEN [sessions EXCEPT ![s] = [user |-> username, basket_id |-> NoBasket]]
    ELSE [sessions EXCEPT ![s].user = username]

\* fault: the password is not compared
authenticate_username(username, password) == \E u \in users : u.username = username

\* authenticate(request, username=..., password=...)
authenticate(username, password) ==
    \E u \in users : u.username = username /\ u.password = password

\* ------------------------------------------------------------ basket
\* fault: the lookup half of get_or_create(user=...) finds nothing
UserBaskets_none(u) == {}

\* the Basket rows get_or_create(user=u) looks up
UserBaskets(u) == {b \in baskets : b.user = u}
BasketIds == {b.id : b \in baskets}
ItemsOf(items, basket_id) == {i \in items : i.basket = basket_id}
BasketData(items, basket_id) ==
    {[id |-> i.product, count |-> i.count] : i \in ItemsOf(items, basket_id)}

\* The primary key of a new BasketItem row: one no row holds.  Which one the
\* database picks is seen by no handler, so the least free one stands for it.
FreeItemId == CHOOSE k \in 1..(Cardinality(basketItems) + 1) :
                  \A i \in basketItems : i.id # k

\* BasketAPIView.get_or_create_basket: the rows after the call, the basket it
\* returns, and whether it returned at all (ok = FALSE: an exception, 500).
get_or_create_basket(s) ==
    LET u == sessions[s].user
        same == [ok |-> TRUE, basket |-> NoBasket, baskets |-> baskets,
                 sessions |-> sessions, basketItems |-> basketItems,
                 nextBasket |-> nextId.basket]
        fresh(owner) == [id |-> nextId.basket, user |-> owner]
    IN
    IF u # Anon
    THEN \* basket, _ = Basket.objects.get_or_create(user=request.user); return
         IF UserBaskets(u) = {}
         THEN [same EXCEPT !.basket = nextId.basket,
                           !.baskets = baskets \cup {fresh(u)},
                           !.nextBasket = nextId.basket + 1]
         ELSE IF Cardinality(UserBaskets(u)) = 1
              THEN [same EXCEPT !.basket = (CHOOSE b \in UserBaskets(u) : TRUE).id]
              ELSE [same EXCEPT !.ok = FALSE]
    ELSE LET basket_id == sessions[s].basket_id
             found ==
                 IF basket_id = NoBasket
                 THEN \* Basket.objects.create(); session['basket_id'] = basket.id
                      [same EXCEPT !.basket = nextId.basket,
                                   !.baskets = baskets \cup {fresh(Anon)},
                                   !.sessions = [sessions EXCEPT
                                                 ![s].basket_id = nextId.basket],
                                   !.nextBasket = nextId.basket + 1]
                 ELSE \* Basket.objects.get(id=basket_id)
                      IF basket_id \in BasketIds
                      THEN [same EXCEPT !.basket = basket_id]
                      ELSE [same EXCEPT !.ok = FALSE]
         IN
         \* the second test of request.user.is_authenticated (line 50): the
         \* authenticated request has already returned above
         IF found.ok /\ u # Anon
         THEN LET ub == IF UserBaskets(u) = {} THEN found.nextBasket
                        ELSE (CHOOSE b \in UserBaskets(u) : TRUE).id
              IN [found EXCEPT
                   !.basket = ub,
                   !.basketItems = {IF i.basket = found.basket
                                    THEN [i EXCEPT !.basket = ub] ELSE i
                                    : i \in basketItems},
                   !.baskets = {b \in (found.baskets \cup
                                  (IF UserBaskets(u) = {}
                                   THEN {[id |-> ub, user |-> u]} ELSE {}))
                                : b.id # found.basket}]
         ELSE found

\* The request just handled (handler, session, the parameters it carried) and
\* the response: its status and, for a basket handler, the basket it worked on
\* and the serialized items.
Respond(op, s, status, basket, product, count, body) ==
    resp' = [NoResponse EXCEPT !.op = op, !.sess = s, !.status = status,
                               !.basket = basket, !.product = product,
                               !.count = count, !.body = body]

AuthRespond(op, s, status, username) ==
    resp' = [NoResponse EXCEPT !.op = op, !.sess = s, !.status = status,
                               !.username = username]

\* fault: the lookup half of get_or_create(basket=..., product=...) finds nothing
ItemRows_none(items, basket, product_id) == {}

\* the BasketItem rows the lookup by basket and product finds
ItemRows(items, basket, product_id) ==
    {i \in items : i.basket = basket /\ i.product = product_id}

\* fault: the product lookup is skipped
ProductFound_always(product_id) == TRUE

\* get_object_or_404(Product, id=product_id) finds a row
ProductFound(product_id) == product_id \in DOMAIN products

\* fault: the count is assigned, not added
AddCount_assign(old, count) == count

\* basket_item.count += int(count)
AddCount(old, count) == old + count

\* fault: one is taken off whatever the request says
SubCount_one(old, count) == old - 1

\* basket_item.count -= request.data.get('count', 0)
SubCount(old, count) == old - count

\* BasketAPIView.get
BasketGet(s) ==
    \E r \in {get_or_create_basket(s)} :
    /\ r.nextBasket <= MaxBasketRows + 1
    /\ baskets' = r.baskets
    /\ sessions' = r.sessions
    /\ basketItems' = r.basketItems
    /\ nextId' = [nextId EXCEPT !.basket = r.nextBasket]
    /\ IF r.ok
       THEN Respond("basket_get", s, HTTP_200, r.basket, 0, 0,
                    BasketData(r.basketItems, r.basket))
       ELSE Respond("basket_get", s, HTTP_500, NoBasket, 0, 0, {})
    /\ UNCHANGED <<authRows, catalogRows, orders, inflight>>

\* BasketAPIView.post
BasketPost(s, product_id, count) ==
    \E r \in {get_or_create_basket(s)} :
    \E mine \in {ItemRows(r.basketItems, r.basket, product_id)} :
    LET \* BasketItem.objects.get_or_create(basket=basket, product=product)
        created == mine = {}
        item == IF created
                THEN [id |-> FreeItemId, basket |-> r.basket,
                      product |-> product_id, count |-> 0]
                ELSE CHOOSE i \in mine : TRUE
        got == r.basketItems \cup {item}
        new_count == AddCount(item.count, count)
    IN
    /\ r.nextBasket <= MaxBasketRows + 1
    /\ baskets' = r.baskets
    /\ sessions' = r.sessions
    /\ nextId' = [nextId EXCEPT !.basket = r.nextBasket]
    /\ UNCHANGED <<authRows, catalogRows, orders, inflight>>
    /\ IF ~r.ok
       THEN /\ basketItems' = r.basketItems
            /\ Respond("basket_post", s, HTTP_500, NoBasket, product_id, count, {})
       ELSE IF ~ProductFound(product_id)
       THEN \* get_object_or_404(Product, id=product_id)
            /\ basketItems' = r.basketItems
            /\ Respond("basket_post", s, HTTP_404, r.basket, product_id, count, {})
       ELSE IF Cardinality(mine) > 1
       THEN \* MultipleObjectsReturned
            /\ basketItems' = r.basketItems
            /\ Respond("basket_post", s, HTTP_500, r.basket, product_id, count, {})
       ELSE /\ new_count <= MaxCount
            /\ created => Cardinality(basketItems) < MaxItemRows
            /\ IF new_count < 0
               THEN \* basket_item.save() violates the check of the
                    \* PositiveIntegerField: the row keeps what it held
                    /\ basketItems' = got
                    /\ Respond("basket_post", s, HTTP_500, r.basket, product_id,
                               count, {})
               ELSE /\ basketItems' = (got \ {item}) \cup
                                        {[item EXCEPT !.count = new_count]}
                    /\ Respond("basket_post", s, HTTP_200, r.basket, product_id,
                               count, BasketData(basketItems', r.basket))

\* BasketAPIView.delete
BasketDelete(s, product_id, count) ==
    \E r \in {get_or_create_basket(s)} :
    \E mine \in {ItemRows(r.basketItems, r.basket, product_id)} :
    LET item == CHOOSE i \in mine : TRUE
        new_count == SubCount(item.count, count)
    IN
    /\ r.nextBasket <= MaxBasketRows + 1
    /\ baskets' = r.baskets
    /\ sessions' = r.sessions
    /\ nextId' = [nextId EXCEPT !.basket = r.nextBasket]
    /\ UNCHANGED <<authRows, catalogRows, orders, inflight>>
    /\ IF ~r.ok
       THEN /\ basketItems' = r.basketItems
            /\ Respond("basket_delete", s, HTTP_500, NoBasket, product_id, count, {})
       ELSE IF mine = {}
       THEN \* get_object_or_404(BasketItem, basket=basket, product_id=product_id)
            /\ basketItems' = r.basketItems
            /\ Respond("basket_delete", s, HTTP_404, r.basket, product_id, count, {})
       ELSE IF Cardinality(mine) > 1
       THEN /\ basketItems' = r.basketItems
            /\ Respond("basket_delete", s, HTTP_500, r.basket, product_id, count, {})
       ELSE /\ new_count <= MaxCount
            /\ basketItems' = IF new_count > 0
                              THEN (r.basketItems \ {item}) \cup
                                     {[item EXCEPT !.count = new_count]}
                              ELSE r.basketItems \ {item}
            /\ Respond("basket_delete", s, HTTP_200, r.basket, product_id, count,
                       BasketData(basketItems', r.basket))

\* ------------------------------------------------------------- myauth
\* SignInView.post
SignIn(s, username, password) ==
    /\ IF authenticate(username, password)
       THEN /\ sessions' = login(s, username)
            /\ resp' = [NoResponse EXCEPT !.op = "sign_in", !.sess = s,
                                          !.status = HTTP_200, !.username = username,
                                          !.query = [password |-> password]]
       ELSE /\ sessions' = sessions
            /\ resp' = [NoResponse EXCEPT !.op = "sign_in", !.sess = s,
                                          !.status = HTTP_500, !.username = username,
                                          !.query = [password |-> password]]
    /\ UNCHANGED <<authRows, baskets, basketItems, catalogRows, orders, nextId,
                   inflight>>

\* SignUpView.post
SignUp(s, username, password) ==
    IF UserExists(username)
    THEN /\ AuthRespond("sign_up", s, HTTP_500, username)
         /\ UNCHANGED <<authRows, sessions, baskets, basketItems, catalogRows,
                        orders, nextId, inflight>>
    ELSE /\ users' = users \cup {[username |-> username, password |-> password]}
         /\ avatars' = avatars \cup {[id |-> nextId.avatar]}
         /\ profiles' = profiles \cup
                {[id |-> nextId.profile, user |-> username,
                  avatar |-> nextId.avatar]}
         /\ nextId' = [nextId EXCEPT !.avatar = @ + 1, !.profile = @ + 1]
         /\ sessions' = login(s, username)
         /\ AuthRespond("sign_up", s, HTTP_200, username)
         /\ UNCHANGED <<baskets, basketItems, catalogRows, orders, inflight>>

\* LogoutView (sign-out): the session is flushed
SignOut(s) ==
    /\ sessions' = [sessions EXCEPT ![s] = [user |-> Anon, basket_id |-> NoBasket]]
    /\ AuthRespond("sign_out", s, HTTP_200, Anon)
    /\ UNCHANGED <<authRows, baskets, basketItems, catalogRows, orders, nextId,
                   inflight>>

\* ProfileView.post
ProfilePost(s) ==
    LET u == sessions[s].user IN
    /\ UNCHANGED <<users, avatars, sessions, baskets, basketItems, catalogRows,
                   orders, inflight>>
    /\ IF u = Anon
       THEN \* Profile.objects.get_or_create(user=AnonymousUser) raises
            /\ UNCHANGED <<profiles, nextId>>
            /\ AuthRespond("profile_post", s, HTTP_500, u)
       ELSE /\ IF \E p \in profiles : p.user = u
               THEN UNCHANGED <<profiles, nextId>>
               ELSE /\ profiles' = profiles \cup
                         {[id |-> nextId.profile, user |-> u, avatar |-> 0]}
                    /\ nextId' = [nextId EXCEPT !.profile = @ + 1]
            /\ AuthRespond("profile_post", s, HTTP_200, u)

\* ------------------------------------------------------------ catalogue
Min(a, b) == IF a < b THEN a ELSE b

\* seq[:n]
Head_n(seq, n) == SubSeq(seq, 1, Min(n, Len(seq)))

\* The rows of ids in the order of key, descending when desc; rows with equal
\* keys come in the order of their primary keys.
RECURSIVE OrderBy(_, _, _)
OrderBy(ids, key, desc) ==
    IF ids = {} THEN <<>>
    ELSE LET first == CHOOSE x \in ids : \A y \in ids :
                         \/ x = y
                         \/ IF desc THEN key[x] > key[y] ELSE key[x] < key[y]
                         \/ key[x] = key[y] /\ x < y
         IN <<first>> \o OrderBy(ids \ {first}, key, desc)

\* each row of seq as many times as mult gives for it
RECURSIVE Joined(_, _)
Joined(seq, mult) ==
    IF seq = <<>> THEN <<>>
    ELSE [k \in 1..mult[Head(seq)] |-> Head(seq)] \o Joined(Tail(seq), mult)

PrimaryKey == [p \in DOMAIN products |-> p]
ReviewsOf(p) == SelectSeq(reviews, LAMBDA r : r.product = p)

\* fault: the price bounds are strict
CatalogFilter_strict(q) ==
    {p \in DOMAIN products :
        /\ ~products[p].is_deleted
        /\ q.name # Unsupplied => products[p].title = q.name
        /\ q.minPrice # Unsupplied => products[p].price > q.minPrice
        /\ q.maxPrice # Unsupplied => products[p].price < q.maxPrice
        /\ q.freeDelivery => products[p].freeDelivery
        /\ q.available => products[p].count > 0
        /\ q.category # Unsupplied => products[p].category = q.category
        /\ q.tags # {} => products[p].tags \cap q.tags # {}}

\* CatalogView.get, the filters: Product.objects.filter(is_deleted=False) and
\* one more filter for every parameter the request supplies
CatalogFilter(q) ==
    {p \in DOMAIN products :
        /\ ~products[p].is_deleted
        /\ q.name # Unsupplied => products[p].title = q.name
        /\ q.minPrice # Unsupplied => products[p].price >= q.minPrice
        /\ q.maxPrice # Unsupplied => products[p].price <= q.maxPrice
        /\ q.freeDelivery => products[p].freeDelivery
        /\ q.available => products[p].count > 0
        /\ q.category # Unsupplied => products[p].category = q.category
        /\ q.tags # {} => products[p].tags \cap q.tags # {}}

\* CatalogView.get, the ordering: the column each sort parameter orders by
CatalogSortKey(q) ==
    [p \in DOMAIN products |->
        CASE q.sort = "reviews" ->
                \* Count('reviews') over the join with the tags the request names
                Len(ReviewsOf(p)) * (IF q.tags = {} THEN 1
                                     ELSE Cardinality(products[p].tags \cap q.tags))
          [] q.sort = "rating" -> products[p].number_of_sales
          [] q.sort = "price" -> products[p].price
          [] q.sort = "date" -> products[p].date
          [] OTHER -> p]

\* the rows of the catalogue query: filter(tags__in=tags) joins the tags, so a
\* product comes once for each of its tags that the request names, unless the
\* annotation of sort=reviews groups the rows by product
CatalogQuery(q) ==
    LET sorted == IF q.sort \in {"reviews", "rating", "price", "date"}
                  THEN OrderBy(CatalogFilter(q), CatalogSortKey(q), q.sortType = "dec")
                  ELSE OrderBy(CatalogFilter(q), PrimaryKey, FALSE)
        mult == [p \in DOMAIN products |->
                    IF q.tags = {} \/ q.sort = "reviews" THEN 1
                    ELSE Cardinality(products[p].tags \cap q.tags)]
    IN Joined(sorted, mult)

\* fault: a last page that is not full is not counted
NumPages_floor(n) == IF n < items_per_page THEN 1 ELSE n \div items_per_page

\* Paginator.num_pages
NumPages(n) == IF n = 0 THEN 1 ELSE (n + items_per_page - 1) \div items_per_page

\* the page CatalogView.get serves for the page parameter
PageNumber(page, n) ==
    CASE page = Unsupplied -> 1
      [] page = NotAnInteger -> 1            \* except PageNotAnInteger
      [] page < 1 -> NumPages(n)             \* except EmptyPage
      [] page > NumPages(n) -> NumPages(n)   \* except EmptyPage
      [] OTHER -> page

PageOf(rows, number) ==
    SubSeq(rows, (number - 1) * items_per_page + 1,
           Min(number * items_per_page, Len(rows)))

\* The items of a catalogue response.  count_rate and full_rate are counted up
\* over the reviews of the products of the page, one after another, and the
\* rating of an item is full_rate / count_rate as they stand after its product
\* (the pair [num, den]; 0 before any review).
RECURSIVE SumRates(_)
SumRates(rs) == IF rs = <<>> THEN 0 ELSE Head(rs).rate + SumRates(Tail(rs))

RECURSIVE CatalogItems(_, _, _, _)
CatalogItems(page, count_rate, full_rate, product_rate) ==
    IF page = <<>> THEN <<>>
    ELSE LET p == Head(page)
             rs == ReviewsOf(p)
             count2 == count_rate + Len(rs)
             full2 == full_rate + SumRates(rs)
             rate2 == IF rs = <<>> THEN product_rate
                      ELSE [num |-> full2, den |-> count2]
         IN <<[id |-> p, reviews |-> Len(rs), rating |-> rate2]>>
              \o CatalogItems(Tail(page), count2, full2, rate2)

Reply(fields) == resp' = fields @@ NoResponse

viewRows == <<authRows, sessions, baskets, basketItems, catalogRows, orders, nextId,
              inflight>>

\* CatalogView.get, response_data
CatalogResponse(q) ==
    LET rows == CatalogQuery(q)
        number == PageNumber(q.page, Len(rows))
    IN [items |-> CatalogItems(PageOf(rows, number), 0, 0, [num |-> 0, den |-> 1]),
        currentPage |-> number, lastPage |-> NumPages(Len(rows))]

\* CatalogView.get
CatalogGet(q) ==
    \E response_data \in {CatalogResponse(q)} :
    /\ Reply([op |-> "catalog", status |-> HTTP_200, query |-> q,
              items |-> response_data.items,
              currentPage |-> response_data.currentPage,
              lastPage |-> response_data.lastPage])
    /\ UNCHANGED viewRows

\* PopularProduct.get: order_by('-index_sort', '-number_of_sales'), not deleted,
\* the first eight
PopularQuery ==
    LET live == {p \in DOMAIN products : ~products[p].is_deleted}
        width == 1 + Cardinality(DOMAIN products)
        key == [p \in DOMAIN products |->
                  products[p].index_sort * width * width + products[p].number_of_sales]
    IN Head_n(OrderBy(live, key, TRUE), PopularLimit)

PopularGet ==
    /\ Reply([op |-> "popular", status |-> HTTP_200,
              items |-> [k \in DOMAIN PopularQuery |-> [id |-> PopularQuery[k]]]])
    /\ UNCHANGED viewRows

\* LimitedProduct.get: limited_edition and not deleted, the first sixteen
LimitedQuery ==
    Head_n(OrderBy({p \in DOMAIN products :
                      products[p].limited_edition /\ ~products[p].is_deleted},
                   PrimaryKey, FALSE), LimitedLimit)

LimitedGet ==
    /\ Reply([op |-> "limited", status |-> HTTP_200,
              items |-> [k \in DOMAIN LimitedQuery |-> [id |-> LimitedQuery[k]]]])
    /\ UNCHANGED viewRows

\* fault: the banner query forgets the is_deleted filter
BannerQuery_all ==
    Head_n(OrderBy(DOMAIN products, [p \in DOMAIN products |-> products[p].date],
                   TRUE), BannerLimit)

\* BannerView.get: the three latest products that are not deleted
BannerQuery ==
    Head_n(OrderBy({p \in DOMAIN products : ~products[p].is_deleted},
                   [p \in DOMAIN products |-> products[p].date], TRUE), BannerLimit)

BannerGet ==
    /\ Reply([op |-> "banners", status |-> HTTP_200,
              items |-> [k \in DOMAIN BannerQuery |-> [id |-> BannerQuery[k]]]])
    /\ UNCHANGED viewRows

\* ProductView.get: Product.objects is the plain manager, which sees every row
ProductGet(pk) ==
    /\ IF pk \in DOMAIN products
       THEN Reply([op |-> "product", status |-> HTTP_200, product |-> pk,
                   items |-> <<[id |-> pk]>>])
       ELSE Reply([op |-> "product", status |-> HTTP_404, product |-> pk])
    /\ UNCHANGED viewRows

\* CategorySerializer.get_subcategories: obj.subcategories.all(), and theirs
RECURSIVE Subtree(_, _)
Subtree(c, depth) ==
    LET subs == {d \in DOMAIN categories : categories[d].parent = c}
    IN {c} \cup (IF depth = 0 THEN {}
                 ELSE UNION {Subtree(d, depth - 1) : d \in subs})

\* CategoryView.get: Category.objects.filter(parent__isnull=True), each with
\* its subcategories nested; body holds every category the response shows
CategoryGet ==
    LET top == {c \in DOMAIN categories : categories[c].parent = NoParent}
    IN /\ Reply([op |-> "categories", status |-> HTTP_200,
                 body |-> UNION {Subtree(c, Cardinality(DOMAIN categories)) : c \in top}])
       /\ UNCHANGED viewRows

\* --------------------------------------------------------------- admin
\* ProductAdmin.get_queryset / CategoryAdmin.get_queryset: the rows the admin
\* lists, and so the rows an action or a delete can be applied to
AdminProducts == {p \in DOMAIN products : ~products[p].is_deleted}
AdminCategories == {c \in DOMAIN categories : ~categories[c].is_deleted}

adminFrame == <<authRows, sessions, baskets, basketItems, reviews, orders, nextId,
                inflight>>

\* make_soft_delete / remove_soft_delete on products: queryset.update(is_deleted=...)
\* on the rows of the admin's queryset among the selected ones
AdminProductSoftDelete(selected, flag) ==
    LET queryset == selected \cap AdminProducts IN
    /\ products' = [p \in DOMAIN products |->
                      IF p \in queryset THEN [products[p] EXCEPT !.is_deleted = flag]
                      ELSE products[p]]
    /\ Reply([op |-> IF flag THEN "make_soft_delete" ELSE "remove_soft_delete",
              status |-> HTTP_200, body |-> selected])
    /\ UNCHANGED <<adminFrame, categories>>

\* make_soft_delete / remove_soft_delete on categories
AdminCategorySoftDelete(selected, flag) ==
    LET queryset == selected \cap AdminCategories IN
    /\ categories' = [c \in DOMAIN categories |->
                        IF c \in queryset THEN [categories[c] EXCEPT !.is_deleted = flag]
                        ELSE categories[c]]
    /\ Reply([op |-> IF flag THEN "make_soft_delete_category"
                     ELSE "remove_soft_delete_category",
              status |-> HTTP_200, body |-> selected])
    /\ UNCHANGED <<adminFrame, products>>

\* fault: the deletion mark is not set
soft_delete_unmarked(row) == row

\* Product.soft_delete / Category.soft_delete
soft_delete(row) == [row EXCEPT !.is_deleted = TRUE]

\* ProductAdmin.delete_model: obj.soft_delete(); obj.save()
AdminProductDelete(obj) ==
    /\ obj \in AdminProducts
    /\ products' = [products EXCEPT ![obj] = soft_delete(products[obj])]
    /\ Reply([op |-> "delete_model", status |-> HTTP_200, product |-> obj])
    /\ UNCHANGED <<adminFrame, categories>>

\* CategoryAdmin.delete_model
AdminCategoryDelete(obj) ==
    /\ obj \in AdminCategories
    /\ categories' = [categories EXCEPT ![obj] = soft_delete(categories[obj])]
    /\ Reply([op |-> "delete_model_category", status |-> HTTP_200, product |-> obj])
    /\ UNCHANGED <<adminFrame, products>>

\* fault: any current password is accepted
check_password_any(user, raw_password) == \E u \in users : u.username = user

\* user.check_password(raw_password)
check_password(user, raw_password) ==
    \E u \in users : u.username = user /\ u.password = raw_password

\* the sessions after the password of user changed: the session hash of every
\* session signed in as user no longer verifies, and the session is flushed
PasswordChanged(user) ==
    [s \in Sessions |->
        IF sessions[s].user = user
        THEN [user |-> Anon, basket_id |-> NoBasket]
        ELSE sessions[s]]

\* ChangeUserPassword.post
ChangeUserPassword(s, current_password, new_password) ==
    LET user == sessions[s].user
        answer(status) ==
            Reply([op |-> "change_password", sess |-> s, status |-> status,
                   username |-> user,
                   query |-> [currentPassword |-> current_password,
                              newPassword |-> new_password]])
    IN
    /\ UNCHANGED <<profiles, avatars, baskets, basketItems, catalogRows, orders,
                   nextId, inflight>>
    /\ IF current_password = Unsupplied \/ new_password = Unsupplied
       THEN answer(HTTP_500) /\ UNCHANGED <<users, sessions>>
       ELSE IF user = Anon
       THEN \* AnonymousUser.check_password raises
            answer(HTTP_500) /\ UNCHANGED <<users, sessions>>
       ELSE IF ~check_password(user, current_password)
       THEN answer(HTTP_500) /\ UNCHANGED <<users, sessions>>
       ELSE IF current_password = new_password
       THEN answer(HTTP_500) /\ UNCHANGED <<users, sessions>>
       ELSE /\ users' = {IF u.username = user
                         THEN [u EXCEPT !.password = new_password] ELSE u : u \in users}
            /\ sessions' = PasswordChanged(user)
            /\ answer(HTTP_200)

\* --------------------------------------------------------------- orders
\* One entry of the product list an order POST carries.  complete is FALSE for
\* an entry that lacks one of the keys the handler reads.
Entry(p, price, count) == [id |-> p, price |-> price, count |-> count, complete |-> TRUE]
BrokenEntry == [id |-> 0, price |-> 0, count |-> 0, complete |-> FALSE]

\* the entries before the first one that lacks a key
RECURSIVE ReadablePrefix(_)
ReadablePrefix(data) ==
    IF data = <<>> \/ ~Head(data).complete THEN <<>>
    ELSE <<Head(data)>> \o ReadablePrefix(Tail(data))

\* total_cost += product['price'], over the entries
RECURSIVE SumPrices(_)
SumPrices(data) == IF data = <<>> THEN 0 ELSE Head(data).price + SumPrices(Tail(data))

\* fault: delivery is charged on every order
WithDelivery_always(total_cost) == total_cost + DeliveryCost

\* if total_cost < 2000: order.totalCost = total_cost + 200
WithDelivery(total_cost) ==
    IF total_cost < FreeDeliveryFrom THEN total_cost + DeliveryCost ELSE total_cost

\* product_info: the keys of an entry the order keeps
ProductInfo(data) == [k \in DOMAIN data |-> [id |-> data[k].id, price |-> data[k].price,
                                             count |-> data[k].count]]

NewOrder(user) ==
    [user |-> user, products |-> <<>>, totalCost |-> NoCost, status |-> "pending",
     details |-> 0]

\* fault: the items of every basket are deleted
ItemsDeleted_all(basket) == {}

\* BasketItem.objects.filter(basket=basket).delete(): the rows that remain
ItemsDeleted(basket) == {i \in basketItems : i.basket # basket.id}

\* fault: the orders of every user are listed
OrdersOf_all(user) == DOMAIN orders

\* Order.objects.filter(user=request.user)
OrdersOf(user) == {k \in DOMAIN orders : orders[k].user = user}

OrderInfo(k) ==
    [id |-> k, products |-> orders[k].products, status |-> orders[k].status,
     totalCost |-> orders[k].totalCost]

orderFrame == <<authRows, sessions, baskets, catalogRows, nextId, inflight>>

\* OrderView.get
OrderGet(s) ==
    /\ IF sessions[s].user = Anon
       THEN \* filter(user=AnonymousUser) raises
            Reply([op |-> "order_list", sess |-> s, status |-> HTTP_500])
       ELSE Reply([op |-> "order_list", sess |-> s, status |-> HTTP_200,
                   items |-> LET mine == OrderBy(OrdersOf(sessions[s].user),
                                                 [k \in DOMAIN orders |-> k], FALSE)
                             IN [k \in DOMAIN mine |-> OrderInfo(mine[k])]])
    /\ UNCHANGED <<orderFrame, basketItems, orders>>

\* OrderView.post
OrderPost(s, products_data) ==
    LET user == sessions[s].user
        read == ReadablePrefix(products_data)
        total_cost == SumPrices(read)
        \* the order as the last order.save() of the loop left it
        looped == [NewOrder(user) EXCEPT
                     !.products = ProductInfo(read),
                     !.totalCost = IF read = <<>> THEN NoCost ELSE total_cost]
        order == [looped EXCEPT !.totalCost = WithDelivery(total_cost)]
        id == Len(orders) + 1
    IN
    /\ Len(orders) < MaxOrders
    /\ UNCHANGED orderFrame
    /\ IF Len(read) < Len(products_data)
       THEN \* KeyError on the entry that lacks a key
            /\ orders' = Append(orders, looped)
            /\ UNCHANGED basketItems
            /\ Reply([op |-> "order_post", sess |-> s, status |-> HTTP_500,
                      query |-> products_data, product |-> id])
       ELSE IF user = Anon \/ UserBaskets(user) = {}
       THEN \* Basket.objects.get(user=request.user) raises
            /\ orders' = Append(orders, order)
            /\ UNCHANGED basketItems
            /\ Reply([op |-> "order_post", sess |-> s, status |-> HTTP_500,
                      query |-> products_data, product |-> id])
       ELSE \E basket \in UserBaskets(user) :
            /\ orders' = Append(orders, order)
            /\ basketItems' = ItemsDeleted(basket)
            /\ Reply([op |-> "order_post", sess |-> s, status |-> HTTP_201,
                      query |-> products_data, product |-> id])

\* fault: the posted data replace the product list as well
OrderUpdate_products(order, data) ==
    [order EXCEPT !.details = data.details, !.totalCost = data.totalCost,
                  !.status = data.status, !.products = <<>>]

\* OrderDetail.post, the assignments: fullName, email, phone, deliveryType,
\* paymentType, city and address (details), totalCost and status
OrderUpdate(order, data) ==
    [order EXCEPT !.details = data.details, !.totalCost = data.totalCost,
                  !.status = data.status]

\* OrderDetail.post
OrderDetailPost(pk, data) ==
    /\ IF pk \in DOMAIN orders
       THEN /\ orders' = [orders EXCEPT ![pk] = OrderUpdate(orders[pk], data)]
            /\ Reply([op |-> "order_update", status |-> HTTP_200, product |-> pk,
                      query |-> data])
       ELSE \* Order.objects.get(pk=...) raises
            /\ UNCHANGED orders
            /\ Reply([op |-> "order_update", status |-> HTTP_500, product |-> pk,
                      query |-> data])
    /\ UNCHANGED <<orderFrame, basketItems>>

\* OrderDetail.get
OrderDetailGet(pk) ==
    /\ IF pk \in DOMAIN orders
       THEN Reply([op |-> "order_detail", status |-> HTTP_200, product |-> pk,
                   items |-> <<OrderInfo(pk)>>])
       ELSE Reply([op |-> "order_detail", status |-> HTTP_500, product |-> pk])
    /\ UNCHANGED <<orderFrame, basketItems, orders>>

\* PaymentView.post
PaymentPost(pk) ==
    /\ IF pk \in DOMAIN orders
       THEN /\ orders' = [orders EXCEPT ![pk].status = "Accepted"]
            /\ Reply([op |-> "payment", status |-> HTTP_200, product |-> pk])
       ELSE /\ UNCHANGED orders
            /\ Reply([op |-> "payment", status |-> HTTP_500, product |-> pk])
    /\ UNCHANGED <<orderFrame, basketItems>>

\* ProductReview.post
ReviewPost(pk, rate, valid) ==
    /\ Len(reviews) < MaxReviews
    /\ IF pk \notin DOMAIN products
       THEN /\ UNCHANGED reviews
            /\ Reply([op |-> "review", status |-> HTTP_404, product |-> pk])
       ELSE IF valid
       THEN /\ reviews' = Append(reviews, [product |-> pk, rate |-> rate])
            /\ Reply([op |-> "review", status |-> HTTP_201, product |-> pk,
                      count |-> rate])
       ELSE /\ UNCHANGED reviews
            /\ Reply([op |-> "review", status |-> HTTP_400, product |-> pk])
    /\ UNCHANGED <<authRows, sessions, baskets, basketItems, products, categories,
                   orders, nextId, inflight>>

\* ProductAdmin change form: the price of a listed product is edited
AdminProductEdit(obj, price) ==
    /\ obj \in AdminProducts
    /\ products' = [products EXCEPT ![obj].price = price]
    /\ Reply([op |-> "admin_change", status |-> HTTP_200, product |-> obj])
    /\ UNCHANGED <<adminFrame, categories>>

\* ------------------------------------------- basket POSTs in progress
\* BasketAPIView.post runs without a lock or a transaction, so the database
\* statements of two requests interleave.  The statements of lines 93-96 of a
\* request for product RaceProduct on basket RaceBasket are taken one at a
\* time: the SELECT of get_or_create, its INSERT, and the UPDATE of save().
\* inflight[r] holds what request r keeps in memory between them.

\* the row get_or_create inserts when its SELECT found none
NewItem(items, basket, product_id) ==
    [id |-> CHOOSE k \in 1..(Cardinality(items) + 1) : \A i \in items : i.id # k,
     basket |-> basket, product |-> product_id, count |-> 0]

\* get_or_create, the SELECT: the row is kept in memory; no row sends the
\* request on to the INSERT; several rows raise MultipleObjectsReturned
PostLookup(r) ==
    LET mine == ItemRows(basketItems, RaceBasket, RaceProduct) IN
    /\ r \in DOMAIN inflight
    /\ inflight[r].pc = "lookup"
    /\ inflight' = [inflight EXCEPT ![r] =
                      IF mine = {} THEN [@ EXCEPT !.pc = "create"]
                      ELSE IF Cardinality(mine) > 1 THEN [@ EXCEPT !.pc = "failed"]
                      ELSE [@ EXCEPT !.pc = "add",
                                     !.item = CHOOSE i \in mine : TRUE]]
    /\ IF Cardinality(mine) > 1
       THEN Respond("basket_post", inflight[r].sess, HTTP_500, RaceBasket,
                    RaceProduct, inflight[r].count, {})
       ELSE UNCHANGED resp
    /\ UNCHANGED <<authRows, sessions, baskets, basketItems, catalogRows, orders,
                   nextId>>

\* get_or_create, the INSERT: no constraint on (basket, product) stops it
PostCreate(r) ==
    LET item == NewItem(basketItems, RaceBasket, RaceProduct) IN
    /\ r \in DOMAIN inflight
    /\ inflight[r].pc = "create"
    /\ basketItems' = basketItems \cup {item}
    /\ inflight' = [inflight EXCEPT ![r] = [@ EXCEPT !.pc = "add", !.item = item]]
    /\ UNCHANGED <<authRows, sessions, baskets, catalogRows, orders, nextId, resp>>

\* basket_item.count += int(count); basket_item.save(): the row the request
\* holds in memory is written over the stored row of the same id
PostSave(r) ==
    LET mine == inflight[r].item
        saved == [mine EXCEPT !.count = AddCount(mine.count, inflight[r].count)]
        stored == {i \in basketItems : i.id # mine.id} \cup {saved}
    IN
    /\ r \in DOMAIN inflight
    /\ inflight[r].pc = "add"
    /\ basketItems' = stored
    /\ inflight' = [inflight EXCEPT ![r] = [@ EXCEPT !.pc = "done", !.item = saved]]
    /\ Respond("basket_post", inflight[r].sess, HTTP_200, RaceBasket, RaceProduct,
               inflight[r].count, BasketData(stored, RaceBasket))
    /\ UNCHANGED <<authRows, sessions, baskets, catalogRows, orders, nextId>>

\* ------------------------------------------------------ specifications
BasketRequest ==
    \E s \in Sessions :
        \/ BasketGet(s)
        \/ \E p \in ProductIds \cup {MissingProduct}, c \in Counts : BasketPost(s, p, c)
        \/ \E p \in ProductIds, c \in Quantities : BasketDelete(s, p, c)

\* sign-up, sign-in and sign-out of the usernames names with the passwords pws
AuthRequest(names, pws) ==
    \E s \in Sessions :
        \/ \E u \in names, pw \in pws : SignUp(s, u, pw)
        \/ \E u \in names, pw \in pws : SignIn(s, u, pw)
        \/ SignOut(s)

\* The basket: anonymous and signed-in customers filling and emptying carts.
Next == BasketRequest \/ AuthRequest(Customers, {1})

Spec == Init /\ [][Next]_vars

\* Accounts: registration, sign-in, sign-out and profile updates.
NextAuth ==
    \/ AuthRequest(Usernames, Passwords)
    \/ \E s \in Sessions : SignIn(s, Unsupplied, Unsupplied)
    \/ \E s \in Sessions : ProfilePost(s)
    \/ \E s \in Sessions, current_password, new_password \in Passwords \cup {Unsupplied} :
          ChangeUserPassword(s, current_password, new_password)

SpecAuth == Init /\ [][NextAuth]_vars

\* The catalogue: the admin soft-deletes rows while visitors browse.
DefaultQuery ==
    [name |-> Unsupplied, minPrice |-> Unsupplied, maxPrice |-> Unsupplied,
     freeDelivery |-> FALSE, available |-> FALSE, category |-> Unsupplied,
     tags |-> {}, sort |-> "none", sortType |-> "inc", page |-> Unsupplied]

\* the requests visitors send: one filter at a time, each sort, each page
CatalogQueries ==
    {DefaultQuery}
    \cup {[DefaultQuery EXCEPT !.name = n] : n \in {1, 2}}
    \cup {[DefaultQuery EXCEPT !.minPrice = 1000], [DefaultQuery EXCEPT !.maxPrice = 1000],
          [DefaultQuery EXCEPT !.minPrice = 1000, !.maxPrice = 1500],
          [DefaultQuery EXCEPT !.freeDelivery = TRUE],
          [DefaultQuery EXCEPT !.available = TRUE]}
    \cup {[DefaultQuery EXCEPT !.category = c] : c \in CategoryIds}
    \cup {[DefaultQuery EXCEPT !.tags = ts] : ts \in (SUBSET TagIds) \ {{}}}
    \cup {[DefaultQuery EXCEPT !.sort = s, !.sortType = d] :
             s \in {"price", "date", "reviews", "rating", "title"}, d \in {"inc", "dec"}}
    \cup {[DefaultQuery EXCEPT !.tags = TagIds, !.sort = "reviews", !.sortType = "dec"],
          [DefaultQuery EXCEPT !.tags = {NTags}, !.available = TRUE, !.maxPrice = 1500]}
    \cup {[DefaultQuery EXCEPT !.page = n] : n \in {NotAnInteger, 0, 1, 2}}

InitCatalog ==
    /\ users = {}
    /\ profiles = {}
    /\ avatars = {}
    /\ sessions = [s \in Sessions |-> [user |-> Anon, basket_id |-> NoBasket]]
    /\ baskets = {}
    /\ basketItems = {}
    /\ products = [p \in CatalogIds |-> ProductRow(p)]
    /\ categories = [c \in CategoryIds |-> CategoryRow(c)]
    /\ reviews = <<>>
    /\ orders = <<>>
    /\ nextId = [basket |-> 1, profile |-> 1, avatar |-> 1]
    /\ resp = NoResponse
    /\ inflight = <<>>

AdminRequest ==
    \/ \E qs \in (SUBSET CatalogIds) \ {{}}, flag \in BOOLEAN :
          AdminProductSoftDelete(qs, flag)
    \/ \E qs \in (SUBSET CategoryIds) \ {{}}, flag \in BOOLEAN :
          AdminCategorySoftDelete(qs, flag)
    \/ \E p \in CatalogIds : AdminProductDelete(p)
    \/ \E c \in CategoryIds : AdminCategoryDelete(c)

CatalogRequest ==
    \/ \E q \in CatalogQueries : CatalogGet(q)
    \/ PopularGet
    \/ LimitedGet
    \/ BannerGet
    \/ \E pk \in CatalogIds \cup {NCatalogProducts + 1} : ProductGet(pk)
    \/ CategoryGet
    \/ \E valid \in BOOLEAN : ReviewPost(2, 5, valid)

NextCatalog == AdminRequest \/ CatalogRequest

SpecCatalog == InitCatalog /\ [][NextCatalog]_vars

\* Pagination: a catalogue of more than one page, which the admin shortens.
PagedIds == 1..NPagedProducts

InitPaging ==
    /\ users = {}
    /\ profiles = {}
    /\ avatars = {}
    /\ sessions = [s \in Sessions |-> [user |-> Anon, basket_id |-> NoBasket]]
    /\ baskets = {}
    /\ basketItems = {}
    /\ products = [p \in PagedIds |-> ProductRow(p)]
    /\ categories = [c \in CategoryIds |-> CategoryRow(c)]
    /\ reviews = <<>>
    /\ orders = <<>>
    /\ nextId = [basket |-> 1, profile |-> 1, avatar |-> 1]
    /\ resp = NoResponse
    /\ inflight = <<>>

\* the page parameters a request may carry
PageParameters == {Unsupplied, NotAnInteger, 0, 1, 2, 3}

PagingQueries ==
    {[q EXCEPT !.page = n] :
        q \in {DefaultQuery, [DefaultQuery EXCEPT !.tags = TagIds],
                [DefaultQuery EXCEPT !.sort = "price", !.sortType = "dec"],
                [DefaultQuery EXCEPT !.freeDelivery = TRUE]},
        n \in PageParameters}

NextPaging ==
    \/ \E q \in PagingQueries : CatalogGet(q)
    \/ \E p \in {1, 2, NPagedProducts} : AdminProductDelete(p)

SpecPaging == InitPaging /\ [][NextPaging]_vars

\* Orders: every user is registered and signed in on a session of their own.
InitOrder ==
    /\ users = {[username |-> u, password |-> 1] : u \in Usernames}
    /\ avatars = {[id |-> u] : u \in Usernames}
    /\ profiles = {[id |-> u, user |-> u, avatar |-> u] : u \in Usernames}
    /\ sessions = [s \in Sessions |->
                     [user |-> IF s \in Usernames THEN s ELSE Anon,
                      basket_id |-> NoBasket]]
    /\ baskets = {}
    /\ basketItems = {}
    /\ products = [p \in ProductIds |-> ProductRow(p)]
    /\ categories = [c \in CategoryIds |-> CategoryRow(c)]
    /\ reviews = <<>>
    /\ orders = <<>>
    /\ nextId = [basket |-> 1, profile |-> NUsers + 1, avatar |-> NUsers + 1]
    /\ resp = NoResponse
    /\ inflight = <<>>

\* what the storefront posts: the requester's basket as BasketSerializer gave it
BasketPayload(s) ==
    LET u == sessions[s].user
        b == IF u # Anon
             THEN IF UserBaskets(u) = {} THEN NoBasket
                  ELSE (CHOOSE x \in UserBaskets(u) : TRUE).id
             ELSE sessions[s].basket_id
        rows == {i.id : i \in ItemsOf(basketItems, b)}
        row(k) == CHOOSE i \in basketItems : i.id = k
        ordered == OrderBy(rows, [k \in rows |-> k], FALSE)
    IN [k \in DOMAIN ordered |->
          Entry(row(ordered[k]).product, products[row(ordered[k]).product].price,
                row(ordered[k]).count)]

\* the product lists an order POST may carry
OrderPayloads(s) ==
    {BasketPayload(s), <<Entry(NProducts, 1000, MaxCount)>>,
     <<Entry(1, 500, 1), BrokenEntry>>}

OrderData ==
    {[details |-> 1, totalCost |-> 700, status |-> "paid"]}

\* the sessions that are signed in
OrderSessions == {s \in Sessions : s \in Usernames}

OrderRequest ==
    \/ \E s \in OrderSessions : OrderGet(s)
    \/ \E s \in OrderSessions : \E data \in OrderPayloads(s) : OrderPost(s, data)
    \/ \E pk \in 1..MaxOrders, data \in OrderData : OrderDetailPost(pk, data)
    \/ \E pk \in 1..MaxOrders : OrderDetailGet(pk)
    \/ \E pk \in 1..MaxOrders : PaymentPost(pk)

ShopRequest ==
    \/ \E s \in OrderSessions : BasketPost(s, 1, 1)
    \/ \E s \in OrderSessions : BasketDelete(s, 1, 1)
    \/ \E valid \in BOOLEAN : ReviewPost(1, 5, valid)
    \/ AdminProductEdit(1, FreeDeliveryFrom)
    \/ AdminProductDelete(1)
    \/ AdminCategoryDelete(1)

NextOrder == OrderRequest \/ ShopRequest

SpecOrder == InitOrder /\ [][NextOrder]_vars

\* Guests: visitors who never sign in fill baskets and order.
NextGuest ==
    \/ \E s \in Sessions, p \in ProductIds : BasketPost(s, p, 1)
    \/ \E s \in Sessions, p \in ProductIds : BasketDelete(s, p, 1)
    \/ \E s \in Sessions : BasketGet(s)
    \/ \E s \in Sessions : \E data \in OrderPayloads(s) : OrderPost(s, data)
    \/ \E s \in Sessions : OrderGet(s)

SpecGuest == Init /\ [][NextGuest]_vars

\* Two POSTs of one signed-in user, sent from two sessions, adding to the same
\* product of the user's basket; the basket holds no item of the product or
\* one item of it when they arrive.
Requests == 1..NRequests

NoItem == [id |-> 0, basket |-> NoBasket, product |-> 0, count |-> 0]

InitialItems ==
    {{}} \cup {{[id |-> 1, basket |-> RaceBasket, product |-> RaceProduct,
                 count |-> n]} : n \in 1..MaxCount}

InitRace ==
    /\ users = {[username |-> 1, password |-> 1]}
    /\ avatars = {[id |-> 1]}
    /\ profiles = {[id |-> 1, user |-> 1, avatar |-> 1]}
    /\ sessions = [s \in Sessions |-> [user |-> 1, basket_id |-> NoBasket]]
    /\ baskets = {[id |-> RaceBasket, user |-> 1]}
    /\ basketItems \in InitialItems
    /\ products = [p \in ProductIds |-> ProductRow(p)]
    /\ categories = [c \in CategoryIds |-> CategoryRow(c)]
    /\ reviews = <<>>
    /\ orders = <<>>
    /\ nextId = [basket |-> RaceBasket + 1, profile |-> 2, avatar |-> 2]
    /\ resp = NoResponse
    /\ \E counts \in [Requests -> 1..MaxCount] :
          inflight = [r \in Requests |->
                        [pc |-> "lookup", sess |-> ((r - 1) % NSessions) + 1,
                         count |-> counts[r], item |-> NoItem,
                         held |-> IF basketItems = {} THEN 0
                                  ELSE (CHOOSE i \in basketItems : TRUE).count]]

NextRace ==
    \/ \E r \in Requests : PostLookup(r)
    \/ \E r \in Requests : PostCreate(r)
    \/ \E r \in Requests : PostSave(r)

SpecRace == InitRace /\ [][NextRace]_vars

\* ------------------------------------------------------------- properties
BasketOps == {"basket_get", "basket_post", "basket_delete"}

\* the BasketItem rows of basket b for product p
ItemsFor(items, b, p) == {i \in items : i.basket = b /\ i.product = p}

\* the count basket b holds of product p (0 when it holds no item of p)
CountOf(items, b, p) ==
    IF ItemsFor(items, b, p) = {} THEN 0
    ELSE (CHOOSE i \in ItemsFor(items, b, p) : TRUE).count

\* C1: when an authenticated user makes a basket request in a session that
\* still holds an anonymous basket with items, those items are re-parented
\* onto the user's basket (and so are in the response) and the session basket
\* is deleted.
C1_MergeOnLogin ==
    [][ \A s \in Sessions :
          LET b == sessions[s].basket_id IN
          ( /\ resp'.op \in BasketOps
            /\ resp'.sess = s
            /\ sessions[s].user # Anon
            /\ b \in BasketIds
            /\ \E i \in ItemsOf(basketItems, b) : i.count > 0 )
          => /\ b \notin {x.id : x \in baskets'}
             /\ \A i \in ItemsOf(basketItems, b) :
                  \E j \in basketItems' :
                     /\ j.id = i.id
                     /\ j.basket = resp'.basket
                     /\ j.product = i.product ]_vars

\* C2: a basket POST for an existing product with count n >= 0 answers 200,
\* leaves exactly one item of that product in the requester's basket, holding
\* n more than the basket held before (n when it held none), and changes no
\* other item and no other basket.
C2_PostAddsCount ==
    [][ ( /\ resp'.op = "basket_post"
          /\ resp'.product \in DOMAIN products
          /\ resp'.count >= 0 )
        => LET b == resp'.basket
               p == resp'.product
               other(items) == {i \in items : ~(i.basket = b /\ i.product = p)}
           IN /\ resp'.status = HTTP_200
              /\ Cardinality(ItemsFor(basketItems', b, p)) = 1
              /\ CountOf(basketItems', b, p) = CountOf(basketItems, b, p) + resp'.count
              /\ other(basketItems') = other(basketItems)
              /\ {x \in baskets' : x.id # b} = {x \in baskets : x.id # b}
              /\ [id |-> p, count |-> CountOf(basketItems', b, p)] \in resp'.body ]_vars

\* C2 happens: a POST of a positive count onto an item the basket already
\* held, beside an item of another product.
C2_Witness ==
    /\ resp.op = "basket_post"
    /\ resp.status = HTTP_200
    /\ resp.count > 0
    /\ CountOf(basketItems, resp.basket, resp.product) > resp.count
    /\ \E i \in basketItems : i.product # resp.product

\* C8: no user owns more than one basket; a basket request of a signed-in user
\* works on that user's basket; an anonymous request in a session that holds a
\* basket_id works on that basket and creates none; a new anonymous basket
\* appears only through a basket request of a session that held no basket_id.
C8_BasketIdentity ==
    [][ /\ \A u \in Usernames : Cardinality({b \in baskets' : b.user = u}) <= 1
        /\ \A s \in Sessions :
             (resp'.op \in BasketOps /\ resp'.sess = s) =>
                /\ sessions[s].user # Anon =>
                      {b.id : b \in {x \in baskets' : x.user = sessions[s].user}}
                         = {resp'.basket}
                /\ (sessions[s].user = Anon /\ sessions[s].basket_id # NoBasket) =>
                      /\ resp'.basket = sessions[s].basket_id
                      /\ baskets' = baskets
                      /\ sessions'[s].basket_id = sessions[s].basket_id
        /\ \A b \in baskets' \ baskets :
             b.user = Anon =>
                /\ resp'.op \in BasketOps
                /\ sessions[resp'.sess].basket_id = NoBasket
                /\ sessions'[resp'.sess].basket_id = b.id ]_vars

\* C8 happens: a signed-in user and an anonymous session each work on a basket
\* of their own, and the same user is signed in from two sessions.
C8_Witness ==
    /\ resp.op \in BasketOps
    /\ sessions[resp.sess].user # Anon
    /\ \E b \in baskets : b.user = Anon
    /\ \E b \in baskets : b.user = sessions[resp.sess].user /\ b.id = resp.basket
    /\ \E s \in Sessions : s # resp.sess /\ sessions[s].user = sessions[resp.sess].user
    /\ basketItems # {}

\* C9 as stated: a basket POST naming a product id that does not exist answers
\* 404 and leaves the store unchanged, creating no BasketItem and no Basket.
C9_MissingProductNoRows ==
    [][ (resp'.op = "basket_post" /\ resp'.product \notin DOMAIN products)
        => /\ resp'.status = HTTP_404
           /\ basketItems' = basketItems
           /\ baskets' = baskets ]_vars

\* C9 amended: a basket POST naming a product id that does not exist answers
\* 404, creates no BasketItem and changes no existing row; the one row it may
\* create is the requester's own empty basket, when the requester had none.
C9_MissingProductNoItem ==
    [][ \A s \in Sessions :
        (resp'.op = "basket_post" /\ resp'.sess = s
           /\ resp'.product \notin DOMAIN products)
        => LET had == IF sessions[s].user # Anon
                      THEN UserBaskets(sessions[s].user) # {}
                      ELSE sessions[s].basket_id # NoBasket
           IN /\ resp'.status = HTTP_404
              /\ basketItems' = basketItems
              /\ baskets \subseteq baskets'
              /\ had => baskets' = baskets
              /\ ~had => baskets' \ baskets =
                            {[id |-> resp'.basket, user |-> sessions[s].user]}
              /\ ItemsOf(basketItems', resp'.basket) # {} => had ]_vars

\* C9 happens: the failed POST was the first basket request of its requester
\* and left a basket behind.
C9_Witness ==
    /\ resp.op = "basket_post"
    /\ resp.status = HTTP_404
    /\ resp.product = MissingProduct
    /\ resp.basket \in BasketIds
    /\ ItemsOf(basketItems, resp.basket) = {}
    /\ basketItems # {}

\* C10: sign-up with a taken username answers 500, creates no User, Avatar or
\* Profile and signs nobody in; sign-up with a new username creates one User,
\* one Avatar and one Profile linked to them, signs the user in and answers
\* 200; every user has exactly one Profile.
C10_SignUp ==
    [][ /\ \A s \in Sessions, name \in Usernames :
            (resp'.op = "sign_up" /\ resp'.sess = s /\ resp'.username = name) =>
               IF \E u \in users : u.username = name
               THEN /\ resp'.status = HTTP_500
                    /\ users' = users
                    /\ avatars' = avatars
                    /\ profiles' = profiles
                    /\ sessions' = sessions
               ELSE /\ resp'.status = HTTP_200
                    /\ \E u \in users' : users' \ users = {u} /\ u.username = name
                    /\ users \subseteq users'
                    /\ \E a \in avatars', p \in profiles' :
                          /\ avatars' \ avatars = {a}
                          /\ profiles' \ profiles = {p}
                          /\ p.user = name
                          /\ p.avatar = a.id
                    /\ avatars \subseteq avatars'
                    /\ profiles \subseteq profiles'
                    /\ sessions'[s].user = name
        /\ \A u \in users' :
              Cardinality({p \in profiles' : p.user = u.username}) = 1
        /\ \A name \in Usernames :
              Cardinality({u \in users' : u.username = name}) <= 1 ]_vars

\* C10 happens: a sign-up was refused for a taken username after another one
\* had registered a second user.
C10_Witness ==
    /\ resp.op = "sign_up"
    /\ resp.status = HTTP_500
    /\ Cardinality(users) = 2
    /\ Cardinality(profiles) = 2
    /\ sessions[resp.sess].user # resp.username

ListingOps == {"catalog", "popular", "limited", "banners"}
ShownIds == {resp.items[k].id : k \in DOMAIN resp.items}

\* C3: once a product or category has is_deleted = True, the product detail
\* GET does not return that product and the category list GET does not include
\* that category, at top level or as a subcategory.
C3_SoftDeleteHides ==
    /\ (resp.op = "product" /\ resp.product \in DOMAIN products
          /\ products[resp.product].is_deleted)
       => (resp.status = HTTP_404 /\ resp.items = <<>>)
    /\ resp.op = "categories" => \A c \in resp.body : ~categories[c].is_deleted

\* C4: no product listing (catalog, products/popular, products/limited,
\* banners) returns a product whose is_deleted flag is True, whatever the
\* filters, sort and page.
C4_ListingsSkipDeleted ==
    resp.op \in ListingOps => \A p \in ShownIds : ~products[p].is_deleted

\* C4 happens: a listing answered with products while another product, which
\* the request would have matched, was soft-deleted.
C4_Witness ==
    /\ resp.op = "banners"
    /\ ShownIds # {}
    /\ products[NCatalogProducts].is_deleted
    /\ \E p \in ShownIds : p < NCatalogProducts

\* the (product, count) pairs of a list of order entries
EntryPairs(entries) == {[id |-> entries[k].id, count |-> entries[k].count] : k \in DOMAIN entries}

\* the (product, count) pairs the basket of user u holds
BasketPairs(u) ==
    {[id |-> i.product, count |-> i.count] :
        i \in {j \in basketItems : \E b \in UserBaskets(u) : j.basket = b.id}}

\* C5: an order the order POST handler creates records exactly the products
\* and counts the requester's basket held when the request arrived.
C5_OrderFromBasket ==
    [][ (resp'.op = "order_post" /\ resp'.status = HTTP_201)
        => EntryPairs(orders'[resp'.product].products)
              = BasketPairs(sessions[resp'.sess].user) ]_vars

\* C6: every step leaves the products list of every existing order as it was,
\* and removes no order.
C6_OrderSnapshot ==
    [][ \A k \in DOMAIN orders :
           /\ k \in DOMAIN orders'
           /\ orders'[k].products = orders[k].products ]_vars

\* C6 happens: an order that holds products has been through an order detail
\* POST and the payment POST that has just been answered.
C6_Witness ==
    /\ resp.op = "payment"
    /\ resp.status = HTTP_200
    /\ resp.product \in DOMAIN orders
    /\ orders[resp.product].products # <<>>
    /\ orders[resp.product].details = 1
    /\ orders[resp.product].status = "Accepted"

\* C7: the order list GET of a signed-in requester answers 200 with orders of
\* the requester only, and with every order of the requester.
C7_OwnOrdersOnly ==
    (resp.op = "order_list" /\ sessions[resp.sess].user # Anon)
    => LET requester == sessions[resp.sess].user
           listed == {resp.items[k].id : k \in DOMAIN resp.items}
       IN /\ resp.status = HTTP_200
          /\ listed = {k \in DOMAIN orders : orders[k].user = requester}
          /\ \A k \in DOMAIN resp.items :
                resp.items[k].products = orders[resp.items[k].id].products

\* C7 happens: a user lists orders while the only order belongs to another
\* user, and gets the empty list.
C7_Witness ==
    /\ resp.op = "order_list"
    /\ resp.status = HTTP_200
    /\ resp.items = <<>>
    /\ \E k \in DOMAIN orders :
          orders[k].user \notin {Anon, sessions[resp.sess].user}

\* C11: change-password answers 200 and stores newPassword as the requester's
\* password exactly when both passwords are supplied, currentPassword is the
\* stored password and newPassword differs from it; otherwise it answers 500
\* and no password changes.  No other user's password ever changes.
C11_ChangePassword ==
    [][ resp'.op = "change_password"
        => LET user == sessions[resp'.sess].user
               cur == resp'.query.currentPassword
               new == resp'.query.newPassword
               accepted == /\ cur # Unsupplied
                           /\ new # Unsupplied
                           /\ [username |-> user, password |-> cur] \in users
                           /\ new # cur
           IN IF accepted
              THEN /\ resp'.status = HTTP_200
                   /\ users' = (users \ {[username |-> user, password |-> cur]})
                                  \cup {[username |-> user, password |-> new]}
              ELSE /\ resp'.status = HTTP_500
                   /\ users' = users ]_vars

\* C11 happens: a password has been changed while another user is registered,
\* and the new password is the stored one.
C11_Witness ==
    /\ resp.op = "change_password"
    /\ resp.status = HTTP_200
    /\ [username |-> resp.username, password |-> resp.query.newPassword] \in users
    /\ \E u \in users : u.username # resp.username

\* C12: sign-in answers 200 and leaves the session signed in as the named user
\* when a user of that name with that password is registered; otherwise it
\* answers 500 and the session is signed in as whoever it was before.
C12_SignIn ==
    [][ resp'.op = "sign_in"
        => LET s == resp'.sess
               credentials == [username |-> resp'.username,
                               password |-> resp'.query.password]
           IN IF credentials \in users
              THEN /\ resp'.status = HTTP_200
                   /\ sessions'[s].user = resp'.username
              ELSE /\ resp'.status = HTTP_500
                   /\ sessions'[s] = sessions[s] ]_vars

\* C12 happens: a sign-in has succeeded while the same username with another
\* password would not have, and another session is signed in as someone else.
C12_Witness ==
    /\ resp.op = "sign_in"
    /\ resp.status = HTTP_200
    /\ sessions[resp.sess].user = resp.username
    /\ \E pw \in Passwords : [username |-> resp.username, password |-> pw] \notin users
    /\ \E s \in Sessions : sessions[s].user \notin {Anon, resp.username}

\* C13: after the admin action 'Remove soft delete' none of the selected
\* products or categories is soft-deleted.
C13_RemoveSoftDeleteRestores ==
    [][ /\ resp'.op = "remove_soft_delete"
           => \A p \in resp'.body : ~products'[p].is_deleted
        /\ resp'.op = "remove_soft_delete_category"
           => \A c \in resp'.body : ~categories'[c].is_deleted ]_vars

\* C14: the admin's delete of a product or category removes no row: the row
\* is kept with is_deleted set and its other fields as they were, and every
\* other product, category, basket item, review and order is unchanged.
C14_DeleteKeepsRows ==
    [][ /\ resp'.op = "delete_model"
           => /\ DOMAIN products' = DOMAIN products
              /\ \A p \in DOMAIN products :
                    products'[p] = IF p = resp'.product
                                   THEN [products[p] EXCEPT !.is_deleted = TRUE]
                                   ELSE products[p]
              /\ UNCHANGED <<categories, basketItems, baskets, reviews, orders>>
        /\ resp'.op = "delete_model_category"
           => /\ DOMAIN categories' = DOMAIN categories
              /\ \A c \in DOMAIN categories :
                    categories'[c] = IF c = resp'.product
                                     THEN [categories[c] EXCEPT !.is_deleted = TRUE]
                                     ELSE categories[c]
              /\ UNCHANGED <<products, basketItems, baskets, reviews, orders>> ]_vars

\* C14 happens: a product that a basket item and a review reference has been
\* deleted, and so has its category, which has a subcategory.
C14_Witness ==
    /\ resp.op = "delete_model"
    /\ products[resp.product].is_deleted
    /\ \E i \in basketItems : i.product = resp.product
    /\ \E k \in DOMAIN reviews : reviews[k].product = resp.product
    /\ categories[products[resp.product].category].is_deleted
    /\ \E c \in DOMAIN categories : categories[c].parent = products[resp.product].category

\* the filters of query q that product p fails
FailedFilters(p, q) ==
    {f \in {"name", "minPrice", "maxPrice", "freeDelivery", "available", "category", "tags"} :
        CASE f = "name" -> q.name # Unsupplied /\ products[p].title # q.name
          [] f = "minPrice" -> q.minPrice # Unsupplied /\ products[p].price < q.minPrice
          [] f = "maxPrice" -> q.maxPrice # Unsupplied /\ products[p].price > q.maxPrice
          [] f = "freeDelivery" -> q.freeDelivery /\ ~products[p].freeDelivery
          [] f = "available" -> q.available /\ products[p].count = 0
          [] f = "category" -> q.category # Unsupplied /\ products[p].category # q.category
          [] f = "tags" -> q.tags # {} /\ \A tag \in q.tags : tag \notin products[p].tags}

\* C16: the catalog returns a product exactly when it is not soft-deleted and
\* fails none of the filters the request supplies (the response of a catalog
\* of one page holds all that is returned).
C16_CatalogFilters ==
    (resp.op = "catalog" /\ resp.lastPage = 1)
    => ShownIds = {p \in DOMAIN products :
                      ~products[p].is_deleted /\ FailedFilters(p, resp.query) = {}}

\* C16 happens: a catalog request with several filters has returned a product
\* and left out a product that fails a filter and a soft-deleted product that
\* fails none.
C16_Witness ==
    /\ resp.op = "catalog"
    /\ resp.query.tags # {} /\ resp.query.available /\ resp.query.maxPrice # Unsupplied
    /\ ShownIds # {}
    /\ \E p \in DOMAIN products : ~products[p].is_deleted /\ FailedFilters(p, resp.query) # {}
    /\ \E p \in DOMAIN products : products[p].is_deleted /\ FailedFilters(p, resp.query) = {}

\* Product.rating as the fraction [num, den]: the average rate of the reviews
\* of p, 0 when it has none
RatingOf(p) ==
    IF ReviewsOf(p) = <<>> THEN [num |-> 0, den |-> 1]
    ELSE [num |-> SumRates(ReviewsOf(p)), den |-> Len(ReviewsOf(p))]

\* product a comes no later than product b in the order of the attribute sort
\* names, ascending
SortedPair(sort, a, b) ==
    CASE sort = "price" -> products[a].price <= products[b].price
      [] sort = "date" -> products[a].date <= products[b].date
      [] sort = "reviews" -> Len(ReviewsOf(a)) <= Len(ReviewsOf(b))
      [] sort = "rating" -> RatingOf(a).num * RatingOf(b).den
                               <= RatingOf(b).num * RatingOf(a).den

\* C17: with sort in {price, date, reviews, rating} the items of a catalog
\* response are in the order of that attribute of their products, descending
\* when sortType is 'dec' and ascending otherwise.
C17_CatalogSort ==
    (resp.op = "catalog" /\ resp.query.sort \in {"price", "date", "reviews", "rating"})
    => \A i, j \in DOMAIN resp.items :
          i < j => IF resp.query.sortType = "dec"
                   THEN SortedPair(resp.query.sort, resp.items[j].id, resp.items[i].id)
                   ELSE SortedPair(resp.query.sort, resp.items[i].id, resp.items[j].id)

\* the products on the pages 1..lastPage of the catalog for query q
OnSomePage(q) ==
    UNION {{CatalogResponse([q EXCEPT !.page = n]).items[k].id :
               k \in DOMAIN CatalogResponse([q EXCEPT !.page = n]).items} :
           n \in 1..CatalogResponse(q).lastPage}

\* C15: a catalog response holds at most 10 items and 1 <= currentPage <=
\* lastPage; a page parameter that is not an integer gives page 1, a page
\* number beyond the last page gives the last page, and the pages 1..lastPage
\* together hold every product the filters match.
C15_CatalogPages ==
    resp.op = "catalog"
    => LET q == resp.query IN
       /\ Len(resp.items) <= 10
       /\ 1 <= resp.currentPage /\ resp.currentPage <= resp.lastPage
       /\ q.page = NotAnInteger => resp.currentPage = 1
       /\ (q.page \notin {Unsupplied, NotAnInteger} /\ q.page > resp.lastPage)
             => resp.currentPage = resp.lastPage
       /\ (q.page \notin {Unsupplied, NotAnInteger} /\ q.page \in 1..resp.lastPage)
             => resp.currentPage = q.page
       /\ OnSomePage(q) = {p \in DOMAIN products :
                              ~products[p].is_deleted /\ FailedFilters(p, q) = {}}

\* C15 happens: a request for a page beyond the last of two pages has been
\* answered with the second page, which is not full.
C15_Witness ==
    /\ resp.op = "catalog"
    /\ resp.lastPage = 2
    /\ resp.query.page = 3
    /\ resp.currentPage = 2
    /\ resp.items # <<>>
    /\ Len(resp.items) < 10

\* C18: the totalCost of the order an order POST stores is the sum of the
\* prices of the submitted entries, plus 200 when the sum is below 2000 and
\* nothing when it is 2000 or more (200 for an empty list).  Stated for the
\* requests whose entries all carry the keys the handler reads.
C18_OrderTotal ==
    [][ (resp'.op = "order_post" /\ \A k \in DOMAIN resp'.query : resp'.query[k].complete)
        => LET sum == SumPrices(resp'.query)
               order == orders'[resp'.product]
           IN /\ Len(orders') = Len(orders) + 1
              /\ resp'.product = Len(orders')
              /\ order.totalCost = IF sum < 2000 THEN sum + 200 ELSE sum
              /\ resp'.query = <<>> => order.totalCost = 200 ]_vars

\* C18 happens: an order of entries worth 2000 or more has been stored with no
\* delivery charge.
C18_Witness ==
    /\ resp.op = "order_post"
    /\ resp.status = HTTP_201
    /\ resp.query # <<>>
    /\ SumPrices(resp.query) >= 2000
    /\ orders[resp.product].totalCost = SumPrices(resp.query)

\* C19: after an order POST of a signed-in user that answers 201, the basket
\* of that user still exists and holds no item, and every other basket and
\* its items are as they were.
C19_OrderEmptiesBasket ==
    [][ (resp'.op = "order_post" /\ resp'.status = HTTP_201
           /\ sessions[resp'.sess].user # Anon)
        => LET user == sessions[resp'.sess].user
               mine == {b.id : b \in {x \in baskets' : x.user = user}}
           IN /\ mine # {}
              /\ \A i \in basketItems' : i.basket \notin mine
              /\ baskets' = baskets
              /\ {i \in basketItems' : i.basket \notin mine}
                    = {i \in basketItems : i.basket \notin mine}
              /\ sessions' = sessions ]_vars

\* C19 happens: an order with products has been answered 201 while another
\* user's basket holds items.
C19_Witness ==
    /\ resp.op = "order_post"
    /\ resp.status = HTTP_201
    /\ orders[resp.product].products # <<>>
    /\ \E b \in baskets : b.user = sessions[resp.sess].user
    /\ \E i \in basketItems : \E b \in baskets :
          i.basket = b.id /\ b.user \notin {Anon, sessions[resp.sess].user}

\* C20: an order POST of a requester who is not signed in stores one new order
\* that belongs to no user and answers 201 with the id of that order.
C20_GuestOrder ==
    [][ (resp'.op = "order_post" /\ sessions[resp'.sess].user = Anon)
        => /\ Len(orders') = Len(orders) + 1
           /\ orders'[Len(orders')].user = Anon
           /\ resp'.status = HTTP_201
           /\ resp'.product = Len(orders') ]_vars

\* C21: a basket DELETE with count n >= 0 for a product the requester's basket
\* holds answers 200 and lowers the count of that item by n when the result is
\* positive, and removes the item otherwise; for a product the basket does not
\* hold it answers 404 and changes no item.  No other item changes.
C21_DeleteLowersCount ==
    [][ (resp'.op = "basket_delete" /\ resp'.count >= 0)
        => LET b == resp'.basket
               p == resp'.product
               left == CountOf(basketItems, b, p) - resp'.count
               other(items) == {i \in items : ~(i.basket = b /\ i.product = p)}
           IN /\ other(basketItems') = other(basketItems)
              /\ IF ItemsFor(basketItems, b, p) = {}
                 THEN /\ resp'.status = HTTP_404
                      /\ basketItems' = basketItems
                 ELSE /\ resp'.status = HTTP_200
                      /\ IF left > 0
                         THEN /\ Cardinality(ItemsFor(basketItems', b, p)) = 1
                              /\ CountOf(basketItems', b, p) = left
                         ELSE ItemsFor(basketItems', b, p) = {} ]_vars

\* C21 happens: a DELETE has lowered the count of an item that stays in the
\* basket beside an item of another product.
C21_Witness ==
    /\ resp.op = "basket_delete"
    /\ resp.status = HTTP_200
    /\ resp.count > 0
    /\ CountOf(basketItems, resp.basket, resp.product) > 0
    /\ \E i \in basketItems : i.basket = resp.basket /\ i.product # resp.product

\* C22: every basket holds at most one BasketItem per product.
C22_OneItemPerProduct ==
    \A b \in baskets : \A p \in DOMAIN products :
        Cardinality(ItemsFor(basketItems, b.id, p)) <= 1

\* C22 happens: a POST has raised the count of an item the basket already
\* held to more than one, and the basket still holds one item of the product.
C22_Witness ==
    /\ resp.op = "basket_post"
    /\ resp.status = HTTP_200
    /\ Cardinality(ItemsFor(basketItems, resp.basket, resp.product)) = 1
    /\ CountOf(basketItems, resp.basket, resp.product) > resp.count
    /\ resp.count > 0
    /\ \E i \in basketItems : i.basket # resp.basket

\* C23: a basket POST or DELETE with a count n >= 0 (0 when the request omits
\* it) that finds every BasketItem with count >= 1 leaves every BasketItem
\* with count >= 1.
C23_NoEmptyItem ==
    [][ ( /\ resp'.op \in {"basket_post", "basket_delete"}
          /\ resp'.count >= 0
          /\ \A i \in basketItems : i.count >= 1 )
        => \A i \in basketItems' : i.count >= 1 ]_vars

\* C24: the rating of every item of a catalog response is the average rate of
\* the reviews of the item's own product, 0 when it has none.
C24_ItemRating ==
    resp.op = "catalog"
    => \A k \in DOMAIN resp.items :
          resp.items[k].rating.num * RatingOf(resp.items[k].id).den
             = RatingOf(resp.items[k].id).num * resp.items[k].rating.den

\* Order.STATUS_CHOICES, the stored values
STATUS_CHOICES == {"pending", "accepted", "shipped", "delivered", "cancelled"}

\* C25: an order POST, a payment POST, or an order detail POST that carries a
\* declared status, which finds every order with a declared status leaves
\* every order with a declared status; a paid order has the value 'accepted'.
C25_DeclaredStatus ==
    [][ ( /\ \/ resp'.op \in {"order_post", "payment"}
             \/ resp'.op = "order_update" /\ resp'.query.status \in STATUS_CHOICES
          /\ \A k \in DOMAIN orders : orders[k].status \in STATUS_CHOICES )
        => /\ \A k \in DOMAIN orders' : orders'[k].status \in STATUS_CHOICES
           /\ (resp'.op = "payment" /\ resp'.status = HTTP_200)
                 => orders'[resp'.product].status = "accepted" ]_vars

\* C27: an order POST that does not answer 201 leaves the orders as they were.
C27_OrderAllOrNothing ==
    [][ (resp'.op = "order_post" /\ resp'.status # HTTP_201) => orders' = orders ]_vars

\* the sum of what the POSTs in progress add
RECURSIVE SumCounts(_)
SumCounts(rs) ==
    IF rs = {} THEN 0
    ELSE LET r == CHOOSE x \in rs : TRUE
         IN inflight[r].count + SumCounts(rs \ {r})

\* C26: once two basket POSTs that add c1 and c2 of one product to one basket,
\* processed with their read, increment and save steps interleaved, have both
\* finished, the basket holds exactly one item of the product and its count
\* is the count it held when they arrived + c1 + c2.
C26_NoLostUpdate ==
    ( /\ inflight # <<>>
      /\ \A r \in DOMAIN inflight : inflight[r].pc \in {"done", "failed"} )
    => /\ Cardinality(ItemsFor(basketItems, RaceBasket, RaceProduct)) = 1
       /\ \A r \in DOMAIN inflight :
             CountOf(basketItems, RaceBasket, RaceProduct)
                = inflight[r].held + SumCounts(DOMAIN inflight)

====
